---- MODULE Spec2Model ----
(***************************************************************************)
(* Model of the task/volume orchestration engine of k8s-cli                *)
(* (src/src/k8s_cli/k8s_executor.py and its HTTP callers).                  *)
(*                                                                         *)
(* Strings are sequences of one-character strings, so that sanitising,     *)
(* splitting and name formatting are computed and not assumed.  The        *)
(* cluster is the object sets `jobs`, `pvcs` and `pods`; label queries are *)
(* exact-match conjunctions over the objects' labels.  tail_logs is the    *)
(* generator, its worker threads and the queue between them, one step of   *)
(* one thread at a time.                                                   *)
(***************************************************************************)
EXTENDS Integers, Sequences, FiniteSets, TLC

\* ---------------------------------------------------------------- bounds
MaxNodes == 2      \* largest num_nodes a request asks for
MaxJobs == 2       \* Job objects the cluster holds at once
MaxClaims == 1     \* storage claims the cluster holds at once
MaxUnits == 3      \* longest unit sequence handed to the aggregator alone
MaxCount == 1      \* largest value of a Job status counter handed to it
MaxPods == 2       \* most pods a task whose logs are tailed has
MaxLines == 2      \* most lines the container of one pod writes
MaxLen == 4        \* longest identity string handed to the codec alone

\* ------------------------------------------------------------ Python values
\* Python's None; no string of the model equals it (characters are one long).
NoneVal == <<"None">>

\* Python's None where the model holds a record (a status object) otherwise.
NoStatus == [none |-> TRUE]

\* Python truthiness of an Optional[str]: None and "" are both falsy.
Truthy(x) == x # NoneVal /\ Len(x) > 0

\* str(i) for the small naturals of the model.
Str(i) == <<ToString(i)>>

\* ------------------------------------------------------------ input sets
\* The identities a caller sends in the X-User header; those that own objects.
Users == {<<>>, <<"a">>, <<"b", "@", "c">>}
Tenants == {<<"a">>, <<"b", "@", "c">>}
OptUsers == Users \cup {NoneVal}
TaskIds == {Str(i) : i \in 1..MaxJobs}
VolumeIds == {Str(i) : i \in 1..MaxClaims}
VolumeNames == {<<"v">>}
Digits == {"0", "1", "2", "3", "4", "5", "6", "7", "8", "9"}

\* ------------------------------------------------------------ identity codec
\* Mutant: the identity is used as it came.
_sanitize_username_Raw(username) == username

\* Mutant: username.replace("@", "-", 1)
_sanitize_username_FirstOnly(username) ==
    LET ats == {i \in 1..Len(username) : username[i] = "@"}
    IN [i \in 1..Len(username) |->
           IF i \in ats /\ (\A k \in ats : i <= k) THEN "-" ELSE username[i]]

\* username.replace("@", "-")
_sanitize_username(username) ==
    [i \in 1..Len(username) |-> IF username[i] = "@" THEN "-" ELSE username[i]]

\* ------------------------------------------------------------ task definitions
\* A request body as it arrives: run may be missing, num_nodes may be 0.
\* An Optional[Dict[str, str]]: None, or the items in insertion order.
NoEnvs == [given |-> FALSE, items |-> <<>>]

Envs(items) == [given |-> TRUE, items |-> items]

RawTask(name, num_nodes, accelerators, volume, run) ==
    [name |-> name, num_nodes |-> num_nodes, accelerators |-> accelerators,
     volume |-> volume, run |-> run, envs |-> NoEnvs]

\* Mutant: run is optional.
TaskDefinition_RunOptional(raw) == raw.num_nodes >= 1

\* pydantic's checks on TaskDefinition: run is required, num_nodes >= 1.
TaskDefinition(raw) == raw.run # NoneVal /\ raw.num_nodes >= 1

Accelerators == {NoneVal, <<"V", ":", "2">>, <<"V", ":", "x">>}
RunScripts == {NoneVal, <<"r">>}

\* Requests without resources and mounts.
Requests ==
    {RawTask(NoneVal, n, NoneVal, NoneVal, r) : n \in 0..MaxNodes, r \in RunScripts}

\* Requests with accelerators and mounts.
BuildRequests ==
    {RawTask(NoneVal, n, a, v, r) :
        n \in 0..MaxNodes, a \in Accelerators,
        v \in {NoneVal} \cup VolumeNames, r \in RunScripts}

\* Well-formed requests without resources and mounts.
ValidRequests == {RawTask(NoneVal, n, NoneVal, NoneVal, <<"r">>) : n \in 1..MaxNodes}

NoTask == RawTask(NoneVal, 1, NoneVal, NoneVal, NoneVal)

\* ------------------------------------------------------------ spec builder
\* resources.accelerators.split(":")[-1]
LastPart(s) ==
    LET colons == {i \in 1..Len(s) : s[i] = ":"}
        k == IF colons = {} THEN 0 ELSE CHOOSE i \in colons : \A c \in colons : c <= i
    IN SubSeq(s, k + 1, Len(s))

\* The accelerator limit _build_resources writes, None when it writes none.
_build_resources(accelerators) ==
    IF Truthy(accelerators) THEN LastPart(accelerators) ELSE NoneVal

\* int(text) succeeds: a non-empty run of digits.
IsInteger(s) == s # NoneVal /\ Len(s) > 0 /\ \A i \in 1..Len(s) : s[i] \in Digits

TaskName(task_def, task_id) ==
    IF Truthy(task_def.name) THEN task_def.name
    ELSE <<"t", "a", "s", "k", "-">> \o task_id

JobName(task_name, task_id, num_nodes, node_idx) ==
    IF num_nodes = 1 THEN task_name \o <<"-">> \o task_id
    ELSE task_name \o <<"-">> \o task_id \o <<"-", "n", "o", "d", "e", "-">> \o Str(node_idx)

\* Mutant: the claim query is not scoped by owner.
_resolve_pvc_name_AnyOwner(claims, volume_name, sanitized_username) ==
    LET found == {p \in claims : p.volume_label /\ p.volume_name = volume_name}
    IN IF found # {} THEN {p.name : p \in found} ELSE {volume_name}

\* The claim names _resolve_pvc_name can return: the name of the first claim
\* the label query lists (the cluster chooses the order), else the literal.
_resolve_pvc_name(claims, volume_name, sanitized_username) ==
    LET found == {p \in claims : /\ p.volume_label
                                 /\ p.volume_name = volume_name
                                 /\ p.username = sanitized_username}
    IN IF found # {} THEN {p.name : p \in found} ELSE {volume_name}

\* Mutant: the engine's entries are put first.
BuildEnv_EngineFirst(envs, node_idx, num_nodes) ==
    <<[name |-> "NODE_RANK", value |-> Str(node_idx)],
      [name |-> "NUM_NODES", value |-> Str(num_nodes)]>>
    \o (IF envs.given /\ envs.items # <<>>
        THEN [i \in 1..Len(envs.items) |->
                 [name |-> envs.items[i][1], value |-> envs.items[i][2]]]
        ELSE <<>>)

\* The env list of the container: the user's entries, then NODE_RANK and
\* NUM_NODES.
BuildEnv(envs, node_idx, num_nodes) ==
    (IF envs.given /\ envs.items # <<>>
     THEN [i \in 1..Len(envs.items) |->
              [name |-> envs.items[i][1], value |-> envs.items[i][2]]]
     ELSE <<>>)
    \o <<[name |-> "NODE_RANK", value |-> Str(node_idx)],
         [name |-> "NUM_NODES", value |-> Str(num_nodes)]>>

\* Mutant: every unit is labelled with node index 0.
JobSpec_IndexZero(task_def, task_id, sanitized_username, node_idx, claim) ==
    [name |-> JobName(TaskName(task_def, task_id), task_id, task_def.num_nodes, node_idx),
     task_label |-> TRUE,
     task_id |-> task_id,
     task_name |-> TaskName(task_def, task_id),
     username |-> sanitized_username,
     pod_username |-> sanitized_username,
     node_idx |-> Str(0),
     num_nodes |-> Str(task_def.num_nodes),
     gpu |-> _build_resources(task_def.accelerators),
     env |-> BuildEnv(task_def.envs, node_idx, task_def.num_nodes),
     claim |-> claim,
     succeeded |-> 0, failed |-> 0, active |-> 0]

\* The Job object one loop iteration of submit_task builds.
JobSpec(task_def, task_id, sanitized_username, node_idx, claim) ==
    [name |-> JobName(TaskName(task_def, task_id), task_id, task_def.num_nodes, node_idx),
     task_label |-> TRUE,
     task_id |-> task_id,
     task_name |-> TaskName(task_def, task_id),
     username |-> sanitized_username,
     pod_username |-> sanitized_username,
     node_idx |-> Str(node_idx),
     num_nodes |-> Str(task_def.num_nodes),
     gpu |-> _build_resources(task_def.accelerators),
     env |-> BuildEnv(task_def.envs, node_idx, task_def.num_nodes),
     claim |-> claim,
     succeeded |-> 0, failed |-> 0, active |-> 0]

\* ------------------------------------------------------------ status aggregator
\* Mutant: the active counter is looked at before the failure counter.
UnitPhase_ActiveFirst(job) ==
    IF job.succeeded > 0 THEN "succeeded"
    ELSE IF job.active > 0 THEN "running"
    ELSE IF job.failed > 0 THEN "failed"
    ELSE "pending"

\* The phase the if/elif chain of _aggregate_task_status counts a unit in.
UnitPhase(job) ==
    IF job.succeeded > 0 THEN "succeeded"
    ELSE IF job.failed > 0 THEN "failed"
    ELSE IF job.active > 0 THEN "running"
    ELSE "pending"

\* Mutant: four independent ifs, one per counter.
PhaseCount_Independent(units, phase) ==
    Cardinality({i \in 1..Len(units) :
                   \/ phase = "succeeded" /\ units[i].succeeded > 0
                   \/ phase = "failed" /\ units[i].failed > 0
                   \/ phase = "running" /\ units[i].active > 0
                   \/ phase = "pending" /\ units[i].succeeded = 0
                        /\ units[i].failed = 0 /\ units[i].active = 0})

PhaseCount(units, phase) ==
    Cardinality({i \in 1..Len(units) : UnitPhase(units[i]) = phase})

\* Mutant: a running unit is looked for before a failed one.
OverallStatus_RunningFirst(units) ==
    IF PhaseCount(units, "succeeded") = Len(units) THEN "completed"
    ELSE IF PhaseCount(units, "running") > 0 THEN "running"
    ELSE IF PhaseCount(units, "failed") > 0 THEN "failed"
    ELSE "pending"

\* Mutant: `succeeded_count > len(jobs)`.
OverallStatus_StrictlyMore(units) ==
    IF PhaseCount(units, "succeeded") > Len(units) THEN "completed"
    ELSE IF PhaseCount(units, "failed") > 0 THEN "failed"
    ELSE IF PhaseCount(units, "running") > 0 THEN "running"
    ELSE "pending"

\* Mutant: the status is that of the first unit that has not succeeded.
OverallStatus_FirstUnfinished(units) ==
    IF PhaseCount(units, "succeeded") = Len(units) THEN "completed"
    ELSE LET open == {i \in 1..Len(units) : UnitPhase(units[i]) # "succeeded"}
             first == CHOOSE i \in open : \A k \in open : i <= k
         IN UnitPhase(units[first])

\* The task status enum, from the four per-phase counts.
OverallStatus(units) ==
    IF PhaseCount(units, "succeeded") = Len(units) THEN "completed"
    ELSE IF PhaseCount(units, "failed") > 0 THEN "failed"
    ELSE IF PhaseCount(units, "running") > 0 THEN "running"
    ELSE "pending"

\* int(text) of an annotation written with str(n).
ParseInt(s) == CHOOSE n \in 0..9 : Str(n) = s

_aggregate_task_status(units) ==
    IF units = <<>> THEN NoStatus
    ELSE [task_id |-> units[1].task_id,
          name |-> units[1].task_name,
          status |-> OverallStatus(units),
          username |-> units[1].username,
          job_name |-> units[1].name,
          num_nodes |-> ParseInt(units[1].num_nodes),
          node_jobs |-> [i \in 1..Len(units) |-> units[i].name],
          succeeded_nodes |-> PhaseCount(units, "succeeded"),
          failed_nodes |-> PhaseCount(units, "failed"),
          running_nodes |-> PhaseCount(units, "running"),
          pending_nodes |-> PhaseCount(units, "pending")]

\* ------------------------------------------------------------ resource store
\* The sequences a label query can return for the matching objects `S`.
RECURSIVE Listings(_)
Listings(S) ==
    IF S = {} THEN {<<>>}
    ELSE UNION {{<<x>> \o rest : rest \in Listings(S \ {x})} : x \in S}

\* Mutant: the query is not scoped by owner.
JobsOfTask_AnyOwner(cluster, task_id, sanitized_username) ==
    {j \in cluster : j.task_id = task_id}

\* Jobs matching "task-id=<id>,username=<sanitized>".
JobsOfTask(cluster, task_id, sanitized_username) ==
    {j \in cluster : j.task_id = task_id /\ j.username = sanitized_username}

\* Jobs matching the selector stop_all_tasks and list_tasks build.
JobsOfOwner(cluster, username) ==
    IF Truthy(username)
    THEN {j \in cluster : j.task_label /\ j.username = _sanitize_username(username)}
    ELSE {j \in cluster : j.task_label}

\* Claims matching "volume-id=<id>,username=<sanitized>".
ClaimsOfVolume(claims, volume_id, sanitized_username) ==
    {p \in claims : p.volume_id = volume_id /\ p.username = sanitized_username}

\* The keys of list_tasks' task_jobs dict, in insertion order.
RECURSIVE GroupKeys(_)
GroupKeys(listed) ==
    IF listed = <<>> THEN <<>>
    ELSE LET rest == GroupKeys(SubSeq(listed, 1, Len(listed) - 1))
             t == listed[Len(listed)].task_id
         IN IF \E i \in 1..Len(rest) : rest[i] = t THEN rest ELSE Append(rest, t)

\* list_tasks on the listing the cluster returned.
GroupAndAggregate(listed) ==
    LET keys == GroupKeys(listed)
        Group(t) == LET Same(j) == j.task_id = t IN SelectSeq(listed, Same)
    IN [i \in 1..Len(keys) |-> _aggregate_task_status(Group(keys[i]))]

\* ------------------------------------------------------------ state
VARIABLES
    jobs,       \* the Job objects of the namespace
    pvcs,       \* the PersistentVolumeClaim objects of the namespace
    sub,        \* the submission in progress or last ended, with its position
    last,       \* the last other call of the engine and what it returned
    units,      \* a unit sequence handed to the aggregator on its own
    agg,        \* what the aggregator returned for `units`
    pods,       \* the Pod objects of the namespace, each with its container's log
    tail,       \* the tail_logs generator: arguments, position, local variables
    threads,    \* tail_logs' thread list, each with the position of its worker
    log_queue,  \* tail_logs' queue.Queue()
    yielded,    \* the items tail_logs has yielded to its caller so far
    identity,   \* an identity string handed to the identity codec on its own
    sanitized,  \* what the codec returned for `identity`
    twice       \* what the codec returned for `sanitized`

logvars == <<pods, tail, threads, log_queue, yielded>>
codecvars == <<identity, sanitized, twice>>
vars == <<jobs, pvcs, sub, last, units, agg, logvars, codecvars>>

Call(op, user, id, result) == [op |-> op, user |-> user, id |-> id, result |-> result]

NoCall == Call("none", NoneVal, NoneVal, NoneVal)

Submission(state, user, def, task_id, idx, created, lists) ==
    [state |-> state, user |-> user, def |-> def, task_id |-> task_id, idx |-> idx,
     created |-> created, lists |-> lists]

NoSubmission == Submission("idle", <<>>, NoTask, NoneVal, 0, <<>>, 0)

\* `sub` and `last` record the outcome of the step just taken only; a
\* submission still in its loop keeps its position across other calls.
InFlight(s) == IF s.state = "running" THEN s ELSE NoSubmission

\* tail_logs not called: no generator, no thread, no queue.
NoTail ==
    [state |-> "idle", task_id |-> NoneVal, user |-> NoneVal, found |-> <<>>,
     active_threads |-> 0, seen |-> <<>>]

LogsIdle ==
    /\ pods = {}
    /\ tail = NoTail
    /\ threads = <<>>
    /\ log_queue = <<>>
    /\ yielded = <<>>

CodecIdle ==
    /\ identity = NoneVal
    /\ sanitized = NoneVal
    /\ twice = NoneVal

Init ==
    /\ jobs = {}
    /\ pvcs = {}
    /\ sub = NoSubmission
    /\ last = NoCall
    /\ units = <<>>
    /\ agg = NoStatus
    /\ LogsIdle
    /\ CodecIdle

\* ------------------------------------------------------------ submit_task
\* uuid4()[:8]: an id no live object carries.
FreshTaskIds == TaskIds \ {j.task_id : j \in jobs}

\* POST /tasks/submit up to the loop: the body is validated, then the id
\* drawn among `ids`.
SubmitBeginWith(users, requests, ids) ==
    /\ sub.state # "running"
    /\ \E username \in users, raw \in requests :
          IF ~TaskDefinition(raw)
          THEN sub' = Submission("rejected", username, raw, NoneVal, 0, <<>>, 0)
          ELSE /\ Cardinality(jobs) + raw.num_nodes <= MaxJobs
               /\ \E task_id \in ids :
                     sub' = Submission("running", username, raw, task_id, 0, <<>>, 0)
    /\ last' = NoCall
    /\ UNCHANGED <<jobs, pvcs, units, agg, logvars, codecvars>>

\* A submission whose id no live object carries.
SubmitBegin(users, requests) == SubmitBeginWith(users, requests, FreshTaskIds)

\* Mutant: a failed create deletes the units created so far.
SubmitNode_Rollback ==
    /\ sub.state = "running"
    /\ LET task_def == sub.def
           sanitized_username == _sanitize_username(sub.user)
           mounts == Truthy(task_def.volume)
           names == IF mounts
                    THEN _resolve_pvc_name(pvcs, task_def.volume, sanitized_username)
                    ELSE {NoneVal}
           looked == sub.lists + (IF mounts THEN 1 ELSE 0)
       IN \E claim \in names, accepted \in BOOLEAN :
             LET job == JobSpec(task_def, sub.task_id, sanitized_username, sub.idx, claim)
             IN IF accepted
                THEN /\ job.name \notin {j.name : j \in jobs}
                     /\ jobs' = jobs \cup {job}
                     /\ sub' = [sub EXCEPT
                                  !.state = IF sub.idx + 1 = task_def.num_nodes
                                            THEN "returned" ELSE "running",
                                  !.idx = sub.idx + 1,
                                  !.created = Append(sub.created, job),
                                  !.lists = looked]
                ELSE /\ jobs' = {j \in jobs : j.task_id # sub.task_id}
                     /\ sub' = [sub EXCEPT !.state = "raised", !.lists = looked]
    /\ last' = NoCall
    /\ UNCHANGED <<pvcs, units, agg, logvars, codecvars>>

\* One iteration of the loop: resolve the claim, build the Job, create it.
\* The create can fail; after the last one submit_task returns the id.
SubmitNode ==
    /\ sub.state = "running"
    /\ LET task_def == sub.def
           sanitized_username == _sanitize_username(sub.user)
           mounts == Truthy(task_def.volume)
           names == IF mounts
                    THEN _resolve_pvc_name(pvcs, task_def.volume, sanitized_username)
                    ELSE {NoneVal}
           looked == sub.lists + (IF mounts THEN 1 ELSE 0)
       IN \E claim \in names, accepted \in BOOLEAN :
             LET job == JobSpec(task_def, sub.task_id, sanitized_username, sub.idx, claim)
             IN IF accepted
                THEN /\ job.name \notin {j.name : j \in jobs}
                     /\ jobs' = jobs \cup {job}
                     /\ sub' = [sub EXCEPT
                                  !.state = IF sub.idx + 1 = task_def.num_nodes
                                            THEN "returned" ELSE "running",
                                  !.idx = sub.idx + 1,
                                  !.created = Append(sub.created, job),
                                  !.lists = looked]
                ELSE /\ jobs' = jobs
                     /\ sub' = [sub EXCEPT !.state = "raised", !.lists = looked]
    /\ last' = NoCall
    /\ UNCHANGED <<pvcs, units, agg, logvars, codecvars>>

\* ------------------------------------------------------------ stop, list, get
stop_task ==
    \E task_id \in TaskIds, username \in Users :
       LET found == JobsOfTask(jobs, task_id, _sanitize_username(username))
       IN /\ jobs' = jobs \ found
          /\ last' = Call("stop_task", username, task_id, found # {})
          /\ sub' = InFlight(sub)
          /\ UNCHANGED <<pvcs, units, agg, logvars, codecvars>>

stop_all_tasks ==
    \E username \in OptUsers :
       LET found == JobsOfOwner(jobs, username)
       IN /\ jobs' = jobs \ found
          /\ last' = Call("stop_all_tasks", username, NoneVal, Cardinality(found))
          /\ sub' = InFlight(sub)
          /\ UNCHANGED <<pvcs, units, agg, logvars, codecvars>>

list_tasks ==
    \E username \in OptUsers :
       \E listed \in Listings(JobsOfOwner(jobs, username)) :
          /\ last' = Call("list_tasks", username, NoneVal, GroupAndAggregate(listed))
          /\ sub' = InFlight(sub)
          /\ UNCHANGED <<jobs, pvcs, units, agg, logvars, codecvars>>

get_task_status ==
    \E task_id \in TaskIds, username \in Users :
       \E listed \in Listings(JobsOfTask(jobs, task_id, _sanitize_username(username))) :
          /\ last' = Call("get_task_status", username, task_id,
                          _aggregate_task_status(listed))
          /\ sub' = InFlight(sub)
          /\ UNCHANGED <<jobs, pvcs, units, agg, logvars, codecvars>>

\* ------------------------------------------------------------ volumes
ClaimSpec(volume_name, volume_id, sanitized_username) ==
    [name |-> volume_name \o <<"-">> \o volume_id,
     volume_label |-> TRUE,
     volume_id |-> volume_id,
     volume_name |-> volume_name,
     username |-> sanitized_username]

_get_volume_status(pvc) ==
    [volume_id |-> pvc.volume_id, name |-> pvc.volume_name,
     username |-> pvc.username, pvc_name |-> pvc.name]

FreshVolumeIds == VolumeIds \ {p.volume_id : p \in pvcs}

create_volume ==
    \E username \in Tenants, volume_name \in VolumeNames, volume_id \in FreshVolumeIds :
       \E accepted \in BOOLEAN :
          LET pvc == ClaimSpec(volume_name, volume_id, _sanitize_username(username))
          IN /\ Cardinality(pvcs) < MaxClaims
             /\ IF accepted
                THEN /\ pvcs' = pvcs \cup {pvc}
                     /\ last' = Call("create_volume", username, volume_id, TRUE)
                ELSE /\ pvcs' = pvcs
                     /\ last' = Call("create_volume", username, NoneVal, FALSE)
             /\ sub' = InFlight(sub)
          /\ UNCHANGED <<jobs, units, agg, logvars, codecvars>>

delete_volume ==
    \E volume_id \in VolumeIds, username \in Users :
       LET found == ClaimsOfVolume(pvcs, volume_id, _sanitize_username(username))
       IN /\ pvcs' = pvcs \ found
          /\ last' = Call("delete_volume", username, volume_id, found # {})
          /\ sub' = InFlight(sub)
          /\ UNCHANGED <<jobs, units, agg, logvars, codecvars>>

get_volume_status ==
    \E volume_id \in VolumeIds, username \in Users :
       \E listed \in Listings(ClaimsOfVolume(pvcs, volume_id, _sanitize_username(username))) :
          /\ last' = Call("get_volume_status", username, volume_id,
                          IF listed = <<>> THEN NoStatus ELSE _get_volume_status(listed[1]))
          /\ sub' = InFlight(sub)
          /\ UNCHANGED <<jobs, pvcs, units, agg, logvars, codecvars>>

\* ------------------------------------------------------------ the cluster
\* The Job controller: a pod starts, then exits with or without success
\* (restartPolicy Never, backoffLimit 0: one pod per Job).
JobStarts ==
    \E j \in jobs :
       /\ j.active = 0 /\ j.succeeded = 0 /\ j.failed = 0
       /\ jobs' = (jobs \ {j}) \cup {[j EXCEPT !.active = 1]}
       /\ last' = NoCall
       /\ sub' = InFlight(sub)
          /\ UNCHANGED <<pvcs, units, agg, logvars, codecvars>>

JobSucceeds ==
    \E j \in jobs :
       /\ j.active = 1
       /\ jobs' = (jobs \ {j}) \cup {[j EXCEPT !.active = 0, !.succeeded = 1]}
       /\ last' = NoCall
       /\ sub' = InFlight(sub)
          /\ UNCHANGED <<pvcs, units, agg, logvars, codecvars>>

JobFails ==
    \E j \in jobs :
       /\ j.active = 1
       /\ jobs' = (jobs \ {j}) \cup {[j EXCEPT !.active = 0, !.failed = 1]}
       /\ last' = NoCall
       /\ sub' = InFlight(sub)
          /\ UNCHANGED <<pvcs, units, agg, logvars, codecvars>>

\* ------------------------------------------------------------ tasks in a live cluster
Next ==
    \/ SubmitBegin(Tenants, Requests)
    \/ SubmitNode
    \/ stop_task
    \/ stop_all_tasks
    \/ list_tasks
    \/ get_task_status
    \/ JobStarts
    \/ JobSucceeds
    \/ JobFails

Spec == Init /\ [][Next]_vars

\* ------------------------------------------------------------ tasks and volumes
\* The calls that address one task or one volume by id, with the
\* submissions of one tenant and the volume creations that give them
\* objects to find.
NextVolumes ==
    \/ SubmitBegin({<<"b", "@", "c">>}, ValidRequests)
    \/ SubmitNode
    \/ stop_task
    \/ get_task_status
    \/ create_volume
    \/ delete_volume
    \/ get_volume_status

SpecVolumes == Init /\ [][NextVolumes]_vars

\* ------------------------------------------------------------ the spec builder alone
\* Submissions of one tenant with every kind of request, up to a full cluster.
NextBuild ==
    \/ SubmitBegin({<<"a">>}, BuildRequests)
    \/ SubmitNode

SpecBuild == Init /\ [][NextBuild]_vars

\* ------------------------------------------------------------ the aggregator alone
\* Unit i of a task, with the status counters the cluster reports for it.
UnitWith(n, i, c) ==
    [JobSpec(RawTask(NoneVal, n, NoneVal, NoneVal, <<"r">>), Str(1), <<"a">>, i - 1, NoneVal)
        EXCEPT !.succeeded = c[1], !.failed = c[2], !.active = c[3]]

Counters == (0..MaxCount) \X (0..MaxCount) \X (0..MaxCount)

\* The caller collects the units the cluster lists for one task.
InitAgg ==
    /\ jobs = {}
    /\ pvcs = {}
    /\ sub = NoSubmission
    /\ last = NoCall
    /\ units = <<>>
    /\ agg = NoStatus
    /\ LogsIdle
    /\ CodecIdle

ListUnit ==
    /\ agg = NoStatus
    /\ Len(units) < MaxUnits
    /\ \E c \in Counters : units' = Append(units, UnitWith(MaxUnits, Len(units) + 1, c))
    /\ UNCHANGED <<jobs, pvcs, sub, last, agg, logvars, codecvars>>

Aggregate ==
    /\ agg = NoStatus
    /\ units # <<>>
    /\ agg' = _aggregate_task_status(units)
    /\ UNCHANGED <<jobs, pvcs, sub, last, units, logvars, codecvars>>

NextAgg ==
    \/ ListUnit
    \/ Aggregate

SpecAgg == InitAgg /\ [][NextAgg]_vars

\* ------------------------------------------------------------ log fan-in
\* The pod the Job controller creates from the template of `job`, with the
\* lines its container writes.
PodOf(job, log) ==
    [task_id |-> job.task_id, username |-> job.pod_username,
     node_idx |-> job.node_idx, log |-> log]

\* Line k of a container's output; every second line is empty.
LineText(k) == IF k % 2 = 0 THEN <<>> ELSE <<"x">>

ContainerLog(n) == [k \in 1..n |-> LineText(k)]

\* Mutant: the pod query is not scoped by owner.
PodsOfTask_AnyOwner(cluster, task_id, sanitized_username) ==
    {p \in cluster : p.task_id = task_id}

\* Pods matching "task-id=<id>,username=<sanitized>".
PodsOfTask(cluster, task_id, sanitized_username) ==
    {p \in cluster : p.task_id = task_id /\ p.username = sanitized_username}

\* What travels through the queue: a line, or None.  `from` and `k` record
\* which thread put the item and which line of its pod it carries.
Item(text, from, k) == [text |-> text, from |-> from, k |-> k]

Sentinel(from) == Item(NoneVal, from, 0)

\* Mutant: `if not line`.
IsSentinel_Falsy(line) == line.text = NoneVal \/ line.text = <<>>

\* `line is None`
IsSentinel(line) == line.text = NoneVal

\* f"node-{node_idx} | {line}"
NodePrefix(node_idx) == <<"n", "o", "d", "e", "-">> \o node_idx \o <<" ", "|", " ">>

FormatLine(line, node_idx, is_multi_node) ==
    IF is_multi_node THEN NodePrefix(node_idx) \o line ELSE line

\* Mutant: every task counts as multi-node.
IsMultiNode_Always(found) == Len(found) >= 1

\* is_multi_node = len(pods) > 1
IsMultiNode(found) == Len(found) > 1

\* threading.Thread(target=stream_pod_logs, args=(pod, node_idx, is_multi_node))
Thread(pod, node_idx, is_multi_node) ==
    [pod |-> pod, node_idx |-> node_idx, is_multi_node |-> is_multi_node,
     state |-> "awaiting", read |-> 0, exit |-> "none"]

\* Mutant: a worker runs once the workers started before it have finished.
Scheduled_InTurn(ts, i) ==
    i \in 1..Len(ts) /\ \A k \in 1..(i - 1) : ts[k].state = "closed"

\* thread.start(): a started worker runs on its own.
Scheduled(ts, i) == i \in 1..Len(ts)

\* Mutant: queue.Queue(maxsize=1).
CanPut_Bounded(q) == Len(q) < 1

\* queue.Queue(): put never blocks.
CanPut(q) == TRUE

\* Mutant: queue.LifoQueue().
QueueGet_Lifo(q) == [line |-> q[Len(q)], rest |-> SubSeq(q, 1, Len(q) - 1)]

\* log_queue.get() on a non-empty queue.
QueueGet(q) == [line |-> Head(q), rest |-> Tail(q)]

\* Mutant: the sentinel is put after the loop, inside the try block.
Finally_AfterLoop(q, i, exit) ==
    IF exit = "stream_raised" THEN q ELSE Append(q, Sentinel(i))

\* finally: log_queue.put(None), whichever way the worker leaves.
Finally(q, i, exit) == Append(q, Sentinel(i))

\* Mutant: the consumer waits for one sentinel.
ActiveOnStart_One(ts) == 1

\* active_threads = len(threads)
ActiveOnStart(ts) == Len(ts)

taskvars == <<jobs, pvcs, sub, last, units, agg>>

\* tail_logs up to the thread loop: the pod query, `if not pods: return`.
TailBegin ==
    /\ tail.state = "idle"
    /\ \E task_id \in TaskIds, username \in Tenants :
          \E listed \in Listings(PodsOfTask(pods, task_id, _sanitize_username(username))) :
             tail' = [state |-> IF listed = <<>> THEN "done" ELSE "starting",
                      task_id |-> task_id, user |-> username, found |-> listed,
                      active_threads |-> 0, seen |-> <<>>]
    /\ UNCHANGED <<pods, threads, log_queue, yielded, taskvars, codecvars>>

\* One iteration of `for pod in pods`; after the last one the consumer
\* loop is entered with active_threads = len(threads).
StartThread ==
    /\ tail.state = "starting"
    /\ Len(threads) < Len(tail.found)
    /\ LET pod == tail.found[Len(threads) + 1]
           started == Append(threads, Thread(pod, pod.node_idx, IsMultiNode(tail.found)))
       IN /\ threads' = started
          /\ tail' = IF Len(started) = Len(tail.found)
                     THEN [tail EXCEPT !.state = IF ActiveOnStart(started) > 0
                                                 THEN "consuming" ELSE "done",
                                       !.active_threads = ActiveOnStart(started)]
                     ELSE tail
    /\ UNCHANGED <<pods, log_queue, yielded, taskvars, codecvars>>

\* One iteration of `while active_threads > 0`: take an item, count a None
\* down, yield anything else.
Get ==
    /\ tail.state = "consuming"
    /\ tail.active_threads > 0
    /\ log_queue # <<>>
    /\ LET got == QueueGet(log_queue)
       IN /\ log_queue' = got.rest
          /\ IF IsSentinel(got.line)
             THEN /\ tail' = [tail EXCEPT
                                !.active_threads = @ - 1,
                                !.seen = Append(@, got.line.from),
                                !.state = IF tail.active_threads = 1
                                          THEN "done" ELSE "consuming"]
                  /\ yielded' = yielded
             ELSE /\ yielded' = Append(yielded, got.line)
                  /\ tail' = tail
    /\ UNCHANGED <<pods, threads, taskvars, codecvars>>

\* The caller stops iterating; the generator is never resumed.
Abandon ==
    /\ tail.state = "consuming"
    /\ tail' = [tail EXCEPT !.state = "abandoned"]
    /\ UNCHANGED <<pods, threads, log_queue, yielded, taskvars, codecvars>>

\* pod.wait(["condition=PodScheduled"], timeout=300) returns.
WaitReturns(i) ==
    /\ Scheduled(threads, i)
    /\ threads[i].state = "awaiting"
    /\ threads' = [threads EXCEPT ![i].state = "streaming"]
    /\ UNCHANGED <<pods, tail, log_queue, yielded, taskvars, codecvars>>

\* pod.wait raises (the timeout included): except, then finally.
WaitRaises(i) ==
    /\ Scheduled(threads, i)
    /\ threads[i].state = "awaiting"
    /\ CanPut(log_queue)
    /\ threads' = [threads EXCEPT ![i].state = "closed", ![i].exit = "wait_raised"]
    /\ log_queue' = Finally(log_queue, i, "wait_raised")
    /\ UNCHANGED <<pods, tail, yielded, taskvars, codecvars>>

\* One iteration of `for line in pod.logs(follow=True)`.
PutLine(i) ==
    /\ Scheduled(threads, i)
    /\ threads[i].state = "streaming"
    /\ threads[i].read < Len(threads[i].pod.log)
    /\ CanPut(log_queue)
    /\ LET t == threads[i]
           line == t.pod.log[t.read + 1]
       IN log_queue' = Append(log_queue,
                              Item(FormatLine(line, t.node_idx, t.is_multi_node),
                                   i, t.read + 1))
    /\ threads' = [threads EXCEPT ![i].read = @ + 1]
    /\ UNCHANGED <<pods, tail, yielded, taskvars, codecvars>>

\* The log stream ends after the container's last line: finally.
StreamEnds(i) ==
    /\ Scheduled(threads, i)
    /\ threads[i].state = "streaming"
    /\ threads[i].read = Len(threads[i].pod.log)
    /\ CanPut(log_queue)
    /\ threads' = [threads EXCEPT ![i].state = "closed", ![i].exit = "ended"]
    /\ log_queue' = Finally(log_queue, i, "ended")
    /\ UNCHANGED <<pods, tail, yielded, taskvars, codecvars>>

\* pod.logs raises, before the first line or between two: except, then finally.
StreamRaises(i) ==
    /\ Scheduled(threads, i)
    /\ threads[i].state = "streaming"
    /\ CanPut(log_queue)
    /\ threads' = [threads EXCEPT ![i].state = "closed", ![i].exit = "stream_raised"]
    /\ log_queue' = Finally(log_queue, i, "stream_raised")
    /\ UNCHANGED <<pods, tail, yielded, taskvars, codecvars>>

\* A step of one worker thread.
stream_pod_logs ==
    \E i \in 1..MaxPods :
       WaitReturns(i) \/ WaitRaises(i) \/ PutLine(i) \/ StreamEnds(i) \/ StreamRaises(i)

\* The first pod of a task writes `most` lines, every other pod one.
LinesOf(i, most) == IF i = 1 THEN most ELSE 1

\* The pods of a task of n nodes submitted by "a", next to the pod of a
\* one-node task of "b@c".
TaskPods(n, most) ==
    {PodOf(JobSpec(RawTask(NoneVal, n, NoneVal, NoneVal, <<"r">>), Str(1),
                   _sanitize_username(<<"a">>), i - 1, NoneVal),
           ContainerLog(LinesOf(i, most))) : i \in 1..n}
    \cup
    {PodOf(JobSpec(RawTask(NoneVal, 1, NoneVal, NoneVal, <<"r">>), Str(2),
                   _sanitize_username(<<"b", "@", "c">>), 0, NoneVal),
           ContainerLog(1))}

\* tail_logs not yet called, in a cluster that holds `cluster_pods`.
LogsReady(cluster_pods) ==
    /\ jobs = {}
    /\ pvcs = {}
    /\ sub = NoSubmission
    /\ last = NoCall
    /\ units = <<>>
    /\ agg = NoStatus
    /\ CodecIdle
    /\ pods = cluster_pods
    /\ tail = NoTail
    /\ threads = <<>>
    /\ log_queue = <<>>
    /\ yielded = <<>>

InitLogs == \E n \in 1..MaxPods : LogsReady(TaskPods(n, MaxLines))

NextLogs ==
    \/ TailBegin
    \/ StartThread
    \/ Get
    \/ Abandon
    \/ stream_pod_logs

SpecLogs == InitLogs /\ [][NextLogs]_vars

\* The schedule wait returns or raises within its timeout, a log stream
\* delivers its next line and ends after the last, started threads and the
\* consumer loop get to run.  The caller may still stop at any time.
\* Every pod has written one line.
InitLogsShort == \E n \in 1..MaxPods : LogsReady(TaskPods(n, 1))

SpecLogsFair ==
    /\ InitLogsShort
    /\ [][NextLogs]_vars
    /\ WF_vars(StartThread)
    /\ WF_vars(Get)
    /\ \A i \in 1..MaxPods :
          /\ WF_vars(WaitReturns(i) \/ WaitRaises(i))
          /\ WF_vars(PutLine(i))
          /\ WF_vars(StreamEnds(i))

\* ------------------------------------------------------------ the identity codec alone
Letters == {"a", "@", "-"}

RECURSIVE Strings(_)
Strings(n) ==
    IF n = 0 THEN {<<>>}
    ELSE {<<>>} \cup {Append(s, c) : s \in Strings(n - 1), c \in Letters}

InitCodec ==
    /\ jobs = {}
    /\ pvcs = {}
    /\ sub = NoSubmission
    /\ last = NoCall
    /\ units = <<>>
    /\ agg = NoStatus
    /\ LogsIdle
    /\ identity \in Strings(MaxLen)
    /\ sanitized = NoneVal
    /\ twice = NoneVal

Sanitize ==
    /\ sanitized = NoneVal
    /\ sanitized' = _sanitize_username(identity)
    /\ UNCHANGED <<identity, twice, taskvars, logvars>>

SanitizeAgain ==
    /\ sanitized # NoneVal
    /\ twice = NoneVal
    /\ twice' = _sanitize_username(sanitized)
    /\ UNCHANGED <<identity, sanitized, taskvars, logvars>>

NextCodec ==
    \/ Sanitize
    \/ SanitizeAgain

SpecCodec == InitCodec /\ [][NextCodec]_vars

\* ------------------------------------------------------------ submissions that mount a volume
\* Well-formed requests with and without a mount.
MountRequests ==
    {RawTask(NoneVal, n, NoneVal, v, <<"r">>) :
        n \in 1..MaxNodes, v \in {NoneVal} \cup VolumeNames}

\* One tenant submits while both tenants create and delete volumes.
NextMounts ==
    \/ SubmitBegin({<<"a">>}, MountRequests)
    \/ SubmitNode
    \/ create_volume
    \/ delete_volume

SpecMounts == Init /\ [][NextMounts]_vars

\* ------------------------------------------------------------ the life of a task
\* One tenant submits, asks for the status and stops, while the Job
\* controller runs the units.
NextLife ==
    \/ SubmitBegin({<<"a">>}, ValidRequests)
    \/ SubmitNode
    \/ get_task_status
    \/ stop_task
    \/ JobStarts
    \/ JobSucceeds
    \/ JobFails

SpecLife == Init /\ [][NextLife]_vars

\* ------------------------------------------------------------ objects of other clients
\* A Job another client of the namespace made: it carries task-id and
\* username labels but not the engine's skypilot-task label.
ForeignJob(task_id, sanitized_username) ==
    [JobSpec(RawTask(NoneVal, 1, NoneVal, NoneVal, <<"r">>), task_id,
             sanitized_username, 0, NoneVal)
        EXCEPT !.task_label = FALSE, !.name = <<"x", "-">> \o task_id]

ForeignCreate ==
    /\ Cardinality(jobs) < MaxJobs
    /\ \E task_id \in TaskIds, username \in Tenants :
          LET job == ForeignJob(task_id, _sanitize_username(username))
          IN /\ job.name \notin {j.name : j \in jobs}
             /\ jobs' = jobs \cup {job}
    /\ last' = NoCall
    /\ sub' = InFlight(sub)
    /\ UNCHANGED <<pvcs, units, agg, logvars, codecvars>>

NextForeign ==
    \/ ForeignCreate
    \/ SubmitBegin({<<"a">>}, ValidRequests)
    \/ SubmitNode
    \/ stop_task
    \/ stop_all_tasks
    \/ list_tasks
    \/ get_task_status

SpecForeign == Init /\ [][NextForeign]_vars

\* ------------------------------------------------------------ submissions with an environment
\* The envs a request carries: none, an empty map, a map with a key of the
\* user, and maps that name NODE_RANK or NUM_NODES themselves.
UserEnvs ==
    {NoEnvs,
     Envs(<<>>),
     Envs(<<<<"K", <<"v">>>>>>),
     Envs(<<<<"NODE_RANK", <<"9">>>>>>),
     Envs(<<<<"NUM_NODES", <<"9">>>>, <<"K", <<"v">>>>>>)}

EnvRequests ==
    {[RawTask(NoneVal, n, NoneVal, NoneVal, <<"r">>) EXCEPT !.envs = e] :
        n \in 1..MaxNodes, e \in UserEnvs}

NextEnv ==
    \/ SubmitBegin({<<"a">>}, EnvRequests)
    \/ SubmitNode

SpecEnv == Init /\ [][NextEnv]_vars

\* ------------------------------------------------------------ logs of a task in the making
\* The Jobs of a task of n nodes submitted by "a".
TaskJobs(n) ==
    {JobSpec(RawTask(NoneVal, n, NoneVal, NoneVal, <<"r">>), Str(1),
             _sanitize_username(<<"a">>), i - 1, NoneVal) : i \in 1..n}

\* tail_logs not yet called; the Jobs of a MaxPods-node task exist, the
\* Job controller has made the pods of some of them, each with one line.
InitLogsPartial ==
    /\ jobs = TaskJobs(MaxPods)
    /\ pods \in SUBSET {PodOf(j, ContainerLog(1)) : j \in TaskJobs(MaxPods)}
    /\ pvcs = {}
    /\ sub = NoSubmission
    /\ last = NoCall
    /\ units = <<>>
    /\ agg = NoStatus
    /\ CodecIdle
    /\ tail = NoTail
    /\ threads = <<>>
    /\ log_queue = <<>>
    /\ yielded = <<>>

SpecLogsPartial == InitLogsPartial /\ [][NextLogs]_vars

\* ------------------------------------------------------------ the volume routes
\* What a call of an executor method hands to the route that made it.  The
\* executor's methods are plain functions: what they return is a value,
\* never a coroutine.
Returned(value) == [raised |-> FALSE, coroutine |-> FALSE, value |-> value]

Raised == [raised |-> TRUE, coroutine |-> FALSE, value |-> NoneVal]

\* `await x`: TypeError unless x is awaitable.
Await(outcome) ==
    IF outcome.raised \/ outcome.coroutine THEN outcome ELSE Raised

\* The answer of a route; `executor` keeps what the executor call itself did.
Response(code, status, volume_id, outcome) ==
    [code |-> code, status |-> status, volume_id |-> volume_id,
     executor |-> IF outcome.raised THEN "raised" ELSE "returned"]

\* POST /volumes/create
api_create_volume ==
    \E x_user \in Tenants, volume_name \in VolumeNames, volume_id \in FreshVolumeIds :
       \E accepted \in BOOLEAN :
          LET pvc == ClaimSpec(volume_name, volume_id, _sanitize_username(x_user))
              outcome == IF accepted THEN Returned(volume_id) ELSE Raised
              awaited == Await(outcome)
          IN /\ Cardinality(pvcs) < MaxClaims
             /\ pvcs' = IF accepted THEN pvcs \cup {pvc} ELSE pvcs
             /\ last' = Call("POST /volumes/create", x_user, volume_id,
                             IF awaited.raised
                             THEN Response(500, "error", NoneVal, outcome)
                             ELSE Response(200, "created", awaited.value, outcome))
             /\ sub' = InFlight(sub)
             /\ UNCHANGED <<jobs, units, agg, logvars, codecvars>>

\* DELETE /volumes/{volume_id}
api_delete_volume ==
    \E volume_id \in VolumeIds, x_user \in Users :
       LET found == ClaimsOfVolume(pvcs, volume_id, _sanitize_username(x_user))
           outcome == Returned(found # {})
           awaited == Await(outcome)
       IN /\ pvcs' = pvcs \ found
          /\ last' = Call("DELETE /volumes/{volume_id}", x_user, volume_id,
                          IF awaited.raised
                          THEN Response(500, "error", NoneVal, outcome)
                          ELSE IF ~awaited.value
                          THEN Response(404, "error", NoneVal, outcome)
                          ELSE Response(200, "deleted", volume_id, outcome))
          /\ sub' = InFlight(sub)
          /\ UNCHANGED <<jobs, units, agg, logvars, codecvars>>

\* GET /volumes/{volume_id}
api_get_volume_status ==
    \E volume_id \in VolumeIds, x_user \in Users :
       \E listed \in Listings(ClaimsOfVolume(pvcs, volume_id, _sanitize_username(x_user))) :
          LET outcome == Returned(IF listed = <<>> THEN NoStatus
                                  ELSE _get_volume_status(listed[1]))
              awaited == Await(outcome)
          IN /\ last' = Call("GET /volumes/{volume_id}", x_user, volume_id,
                             IF awaited.raised
                             THEN Response(500, "error", NoneVal, outcome)
                             ELSE IF awaited.value = NoStatus
                             THEN Response(404, "error", NoneVal, outcome)
                             ELSE Response(200, "found", volume_id, outcome))
             /\ sub' = InFlight(sub)
             /\ UNCHANGED <<jobs, pvcs, units, agg, logvars, codecvars>>

\* The routes, in a cluster where "a" submits tasks that mount the volumes.
NextApi ==
    \/ api_create_volume
    \/ api_delete_volume
    \/ api_get_volume_status
    \/ SubmitBegin({<<"a">>}, MountRequests)
    \/ SubmitNode

SpecApi == Init /\ [][NextApi]_vars

\* ------------------------------------------------------------ ids drawn twice
\* Well-formed requests with and without a task name.
NamedRequests ==
    {RawTask(name, n, NoneVal, NoneVal, <<"r">>) :
        name \in {NoneVal, <<"n">>}, n \in 1..MaxNodes}

\* str(uuid.uuid4())[:8] is drawn without looking at the ids in use: the id
\* of a submission can be one a live task carries.
NextCollide ==
    \/ SubmitBeginWith(Tenants, NamedRequests, TaskIds)
    \/ SubmitNode
    \/ list_tasks
    \/ stop_task

SpecCollide == Init /\ [][NextCollide]_vars

\* ================================================================ claims

\* ---------------------------------------------------------------- C1
\* C1: a submit_task call that returns a task id for num_nodes = N has
\* created exactly N Jobs, all labelled with the returned id, whose node-idx
\* labels are 0..N-1 with no repeats.
C1_FanOutComplete ==
    sub.state = "returned" =>
        LET N == sub.def.num_nodes
            made == sub.created
        IN /\ N >= 1
           /\ Len(made) = N
           /\ \A i \in 1..N : made[i].task_id = sub.task_id
           /\ {made[i].node_idx : i \in 1..N} = {Str(k) : k \in 0..(N - 1)}
           /\ \A i, k \in 1..N : made[i].node_idx = made[k].node_idx => i = k

C1_Witness ==
    /\ sub.state = "returned"
    /\ sub.def.num_nodes = MaxNodes
    /\ Len(sub.created) = MaxNodes

\* ---------------------------------------------------------------- C2
\* C2: for every non-empty unit sequence the task status is completed if
\* every unit is succeeded, else failed if some unit is failed, else running
\* if some unit is running, else pending.
C2_Precedence ==
    agg # NoStatus =>
        LET n == Len(units)
            Is(i, phase) == UnitPhase(units[i]) = phase
        IN agg.status =
             IF \A i \in 1..n : Is(i, "succeeded") THEN "completed"
             ELSE IF \E i \in 1..n : Is(i, "failed") THEN "failed"
             ELSE IF \E i \in 1..n : Is(i, "running") THEN "running"
             ELSE "pending"

C2_Witness ==
    /\ agg # NoStatus
    /\ Len(units) = 3
    /\ UnitPhase(units[1]) = "succeeded"
    /\ UnitPhase(units[2]) = "running"
    /\ UnitPhase(units[3]) = "failed"
    /\ agg.status = "failed"

\* ---------------------------------------------------------------- C3
\* C3 as claimed: whenever some unit has failure counter > 0 the task status
\* is failed, whatever the other counters are.
C3_AnyFailureCounter ==
    (agg # NoStatus /\ \E i \in 1..Len(units) : units[i].failed > 0)
        => agg.status = "failed"

\* C3 as amended: whenever some unit has failure counter > 0 and completion
\* counter 0 the task status is failed, whatever the active counter of that
\* unit and the counters of the other units are.
C3_FailedUnitDominates ==
    (agg # NoStatus
        /\ \E i \in 1..Len(units) : units[i].failed > 0 /\ units[i].succeeded = 0)
        => agg.status = "failed"

C3_Witness ==
    /\ agg # NoStatus
    /\ Len(units) >= 2
    /\ \E i, k \in 1..Len(units) :
          /\ units[i].failed > 0 /\ units[i].succeeded = 0 /\ units[i].active > 0
          /\ units[k].succeeded > 0 /\ units[k].failed = 0
    /\ agg.status = "failed"

\* ---------------------------------------------------------------- C4
\* Every unit of the task of status `st` exists and has completed.
AllNodesFinished(st) ==
    LET mine == {j \in jobs : j.task_id = st.task_id}
    IN Cardinality(mine) = st.num_nodes /\ \A j \in mine : j.succeeded > 0

\* C4: get_task_status and list_tasks report a task submitted with
\* num_nodes = N as completed only if N units of it exist and each has
\* completion counter > 0.
C4_CompletedMeansAllNodes ==
    /\ (last.op = "get_task_status" /\ last.result # NoStatus
           /\ last.result.status = "completed") => AllNodesFinished(last.result)
    /\ last.op = "list_tasks" =>
          \A i \in 1..Len(last.result) :
             last.result[i].status = "completed" => AllNodesFinished(last.result[i])

\* ---------------------------------------------------------------- C5
\* C5: list_tasks(A) with A given returns only tasks all of whose units are
\* labelled username = sanitize(A); list_tasks(None) returns every task.
C5_ListingIsolation ==
    last.op = "list_tasks" =>
        LET listed == {last.result[i].task_id : i \in 1..Len(last.result)}
        IN IF last.user # NoneVal
           THEN \A j \in jobs :
                   j.task_id \in listed => j.username = _sanitize_username(last.user)
           ELSE listed = {j.task_id : j \in jobs}

\* ---------------------------------------------------------------- C6
\* C6: stop_all_tasks(A) and stop_task(id, A) with A given delete only units
\* labelled username = sanitize(A) (and, for stop_task, task-id = id); every
\* other unit is still in the cluster afterwards.
C6_StopLeavesOthers ==
    [][/\ (last'.op = "stop_all_tasks" /\ last'.user # NoneVal) =>
              \A j \in jobs :
                 j.username # _sanitize_username(last'.user) => j \in jobs'
       /\ last'.op = "stop_task" =>
              \A j \in jobs :
                 (j.username # _sanitize_username(last'.user) \/ j.task_id # last'.id)
                    => j \in jobs']_vars

\* ---------------------------------------------------------------- C7
\* C7: stop_all_tasks returns the number of distinct task ids whose units it
\* deleted.
C7_CountsTasks ==
    [][last'.op = "stop_all_tasks" =>
          last'.result = Cardinality({j.task_id : j \in jobs \ jobs'})]_vars

\* ---------------------------------------------------------------- C8
\* C8: when no unit (claim) carries the given id together with
\* sanitize(owner), stop_task and delete_volume return false and
\* get_task_status and get_volume_status return None, and the call creates
\* and deletes nothing.
C8_NotFoundIsAValue ==
    [][LET owner == _sanitize_username(last'.user)
           NoUnit == ~\E j \in jobs : j.task_id = last'.id /\ j.username = owner
           NoClaim == ~\E p \in pvcs : p.volume_id = last'.id /\ p.username = owner
           Untouched == jobs' = jobs /\ pvcs' = pvcs
       IN /\ (last'.op = "stop_task" /\ NoUnit) =>
                 (last'.result = FALSE /\ Untouched)
          /\ (last'.op = "get_task_status" /\ NoUnit) =>
                 (last'.result = NoStatus /\ Untouched)
          /\ (last'.op = "delete_volume" /\ NoClaim) =>
                 (last'.result = FALSE /\ Untouched)
          /\ (last'.op = "get_volume_status" /\ NoClaim) =>
                 (last'.result = NoStatus /\ Untouched)]_vars

\* stop_task for a task that exists and belongs to another owner.
C8_Witness ==
    /\ last.op = "stop_task"
    /\ last.result = FALSE
    /\ \E j \in jobs : j.task_id = last.id /\ j.username # _sanitize_username(last.user)

\* ---------------------------------------------------------------- C9
\* C9: when the create for node index k fails, submit_task raises and returns
\* no id, the step deletes nothing, units 0..k-1 are the only ones it created
\* and no create for a later index follows.
C9_PartialFanOut ==
    /\ [][(sub.state = "running" /\ sub'.state = "raised") =>
             /\ jobs' = jobs
             /\ pvcs' = pvcs
             /\ sub'.created = sub.created]_vars
    /\ [](sub.state = "raised" =>
             /\ sub.idx < sub.def.num_nodes
             /\ Len(sub.created) = sub.idx
             /\ \A i \in 1..sub.idx : sub.created[i].node_idx = Str(i - 1)
             /\ ~ENABLED SubmitNode)

\* The create for index k >= 1 failed and units 0..k-1 are live.
C9_Witness ==
    /\ sub.state = "raised"
    /\ sub.idx >= 1
    /\ \A i \in 1..sub.idx : \E j \in jobs : j.name = sub.created[i].name

\* ---------------------------------------------------------------- C10
\* A request pydantic refuses, or one whose accelerator count is no integer.
Malformed(raw) ==
    \/ raw.run = NoneVal
    \/ raw.num_nodes < 1
    \/ (Truthy(raw.accelerators) /\ ~IsInteger(LastPart(raw.accelerators)))

TimesYielded(i, k) ==
    Cardinality({n \in 1..Len(yielded) : yielded[n].from = i /\ yielded[n].k = k})

\* C11 as claimed: when tail_logs has ended, every line written by every
\* discovered pod is in the merged sequence exactly once and no sentinel is.
C11_EveryLineOnce ==
    tail.state = "done" =>
        /\ \A n \in 1..Len(yielded) : yielded[n].text # NoneVal
        /\ \A i \in 1..Len(tail.found) :
              \A k \in 1..Len(tail.found[i].log) : TimesYielded(i, k) = 1

\* C11 as amended: when tail_logs has ended, every line a worker read from
\* its pod's stream is in the merged sequence exactly once and no sentinel
\* is: all lines of a pod whose wait returned and whose stream ended, the
\* lines read before the exception of a pod whose stream raised, none of a
\* pod whose wait raised.
C11_EveryReadLineOnce ==
    tail.state = "done" =>
        /\ Len(threads) = Len(tail.found)
        /\ \A n \in 1..Len(yielded) :
              /\ yielded[n].text # NoneVal
              /\ yielded[n].from \in 1..Len(threads)
              /\ yielded[n].k \in 1..Len(threads[yielded[n].from].pod.log)
        /\ \A i \in 1..Len(threads) :
              /\ threads[i].pod = tail.found[i]
              /\ threads[i].exit = "ended" => threads[i].read = Len(threads[i].pod.log)
              /\ threads[i].exit = "wait_raised" => threads[i].read = 0
              /\ \A k \in 1..Len(threads[i].pod.log) :
                    TimesYielded(i, k) = IF k <= threads[i].read THEN 1 ELSE 0

\* All pods of a MaxPods-node task streamed to their end, and the lines of
\* one pod arrived around a line of another.
C11_Witness ==
    /\ tail.state = "done"
    /\ Len(threads) = MaxPods
    /\ \A i \in 1..Len(threads) : threads[i].exit = "ended"
    /\ \E a, b, c \in 1..Len(yielded) :
          /\ a < b /\ b < c
          /\ yielded[a].from = yielded[c].from
          /\ yielded[a].from # yielded[b].from

\* ---------------------------------------------------------------- C12
\* C12: any two lines of the same pod are yielded in the order the pod
\* wrote them, at every point of every interleaving.
C12_PerPodOrder ==
    \A n, m \in 1..Len(yielded) :
       (n < m /\ yielded[n].from = yielded[m].from) => yielded[n].k < yielded[m].k

\* Two lines of one pod were yielded in their order, after a line of a pod
\* whose thread was started later: across pods the order is the workers'.
C12_Witness ==
    /\ tail.state = "done"
    /\ \E a, b, c \in 1..Len(yielded) :
          /\ a < b /\ b < c
          /\ yielded[a].from > yielded[b].from
          /\ yielded[b].from = yielded[c].from
          /\ yielded[b].k < yielded[c].k

\* ---------------------------------------------------------------- C13
\* The sentinels of thread i: still queued, and already taken.
QueuedFrom(i) == {n \in 1..Len(log_queue) : log_queue[n].from = i}

QueuedSentinels(i) == {n \in QueuedFrom(i) : log_queue[n].text = NoneVal}

TakenSentinels(i) == {n \in 1..Len(tail.seen) : tail.seen[n] = i}

\* C13: a worker has pushed one sentinel once it has left stream_pod_logs,
\* by whichever path, and none before; nothing of that worker follows its
\* sentinel; so the sentinels never outnumber the started workers and the
\* consumer's counter never goes below zero.
C13_OneSentinelLast ==
    /\ [](/\ \A i \in 1..Len(threads) :
               /\ Cardinality(QueuedSentinels(i)) + Cardinality(TakenSentinels(i))
                     = IF threads[i].state = "closed" THEN 1 ELSE 0
               /\ threads[i].state = "closed"
                     <=> threads[i].exit \in {"ended", "wait_raised", "stream_raised"}
               /\ \A n \in QueuedSentinels(i) : \A m \in QueuedFrom(i) : m <= n
               /\ TakenSentinels(i) # {} => QueuedFrom(i) = {}
          /\ Len(tail.seen)
                + Cardinality({n \in 1..Len(log_queue) : log_queue[n].text = NoneVal})
                <= Len(threads)
          /\ tail.active_threads >= 0
          /\ tail.state = "consuming" =>
                tail.active_threads = Len(threads) - Len(tail.seen))
    /\ [][\A i \in 1..Len(threads) :
             threads[i].state = "closed" =>
                /\ threads'[i] = threads[i]
                /\ \A n \in 1..Len(log_queue') :
                      log_queue'[n].from = i =>
                         \E m \in 1..Len(log_queue) : log_queue[m] = log_queue'[n]]_vars

\* One worker left through a failed wait and another through an exception
\* in the middle of its stream, and both sentinels were counted.
C13_Witness ==
    /\ tail.state = "done"
    /\ Len(tail.seen) = Len(threads)
    /\ \E i, k \in 1..Len(threads) :
          /\ threads[i].exit = "wait_raised"
          /\ threads[k].exit = "stream_raised"
          /\ threads[k].read >= 1
          /\ threads[k].read < Len(threads[k].pod.log)

\* ---------------------------------------------------------------- C14
\* C14: once tail_logs has found pods it ends, unless its caller stops
\* consuming; the step that ends it is the one that takes the P-th
\* sentinel, and by then every worker has left its stream.
C14_EndsAtLastSentinel ==
    /\ (tail.state \in {"starting", "consuming"})
          ~> (tail.state \in {"done", "abandoned"})
    /\ [][(tail.state # "done" /\ tail'.state = "done" /\ tail'.found # <<>>) =>
             /\ tail.state = "consuming"
             /\ Len(tail'.seen) = Len(tail'.found)
             /\ Len(tail.seen) = Len(tail'.found) - 1
             /\ yielded' = yielded]_vars
    /\ []((tail.state = "done" /\ tail.found # <<>>) =>
             /\ Len(tail.seen) = Len(tail.found)
             /\ \A i \in 1..Len(tail.found) :
                   i \in 1..Len(threads) /\ threads[i].state = "closed")

\* tail_logs of a MaxPods-node task has ended, having taken MaxPods sentinels.
C14_Witness ==
    /\ tail.state = "done"
    /\ Len(tail.found) = MaxPods
    /\ Len(tail.seen) = MaxPods
    /\ yielded # <<>>

\* ---------------------------------------------------------------- C15
\* C15: a worker whose schedule wait raised or timed out has closed without
\* a line; when tail_logs has ended, every line of every pod whose stream
\* ran to its end was yielded, whatever happened to the other workers; all
\* threads are started before the consumer first takes from the queue; and
\* while a worker is blocked in its wait, every other worker can leave its
\* own wait and put its next line, and the consumer can take what is queued.
C15_Isolation ==
    /\ [](\A i \in 1..Len(threads) :
             threads[i].exit = "wait_raised" =>
                /\ threads[i].state = "closed"
                /\ \A n \in QueuedFrom(i) : log_queue[n].text = NoneVal
                /\ \A n \in 1..Len(yielded) : yielded[n].from # i)
    /\ [](tail.state = "done" =>
             \A i \in 1..Len(threads) :
                threads[i].exit = "ended" =>
                   \A k \in 1..Len(threads[i].pod.log) : TimesYielded(i, k) = 1)
    /\ [](tail.state \in {"consuming", "abandoned"} => Len(threads) = Len(tail.found))
    /\ [](\A b \in 1..Len(threads) :
             threads[b].state = "awaiting" =>
                /\ \A i \in 1..Len(threads) :
                      /\ (i # b /\ threads[i].state = "awaiting") => ENABLED WaitReturns(i)
                      /\ (threads[i].state = "streaming"
                            /\ threads[i].read < Len(threads[i].pod.log))
                         => ENABLED PutLine(i)
                /\ (tail.state = "consuming" /\ log_queue # <<>>) => ENABLED Get)

\* tail_logs ended after one worker's wait raised for a pod that had
\* written lines, with every line of another pod yielded.
C15_Witness ==
    /\ tail.state = "done"
    /\ \E i, k \in 1..Len(threads) :
          /\ threads[i].exit = "wait_raised"
          /\ threads[i].pod.log # <<>>
          /\ threads[k].exit = "ended"
          /\ threads[k].pod.log # <<>>
          /\ \A n \in 1..Len(threads[k].pod.log) : TimesYielded(k, n) = 1

\* ---------------------------------------------------------------- C16
\* C16: after the caller has stopped consuming, nothing is taken from the
\* queue any more, yet no worker is ever blocked: one that waits can leave
\* its wait, one that streams can put its next line, one whose stream is at
\* its end can put its sentinel; and every worker ends up closed.
C16_ProducersNeverBlock ==
    /\ [][tail.state = "abandoned" =>
             /\ tail' = tail
             /\ yielded' = yielded
             /\ Len(log_queue') >= Len(log_queue)
             /\ SubSeq(log_queue', 1, Len(log_queue)) = log_queue]_vars
    /\ [](tail.state = "abandoned" =>
             \A i \in 1..Len(threads) :
                /\ threads[i].state = "awaiting" =>
                      (ENABLED WaitReturns(i) /\ ENABLED WaitRaises(i))
                /\ (threads[i].state = "streaming"
                      /\ threads[i].read < Len(threads[i].pod.log))
                   => (ENABLED PutLine(i) /\ ENABLED StreamRaises(i))
                /\ (threads[i].state = "streaming"
                      /\ threads[i].read = Len(threads[i].pod.log))
                   => ENABLED StreamEnds(i))
    /\ (tail.state = "abandoned")
          ~> (\A i \in 1..Len(threads) : threads[i].state = "closed")

\* The caller stopped before taking anything; all workers of a MaxPods-node
\* task have closed since, their lines and sentinels still in the queue.
C16_Witness ==
    /\ tail.state = "abandoned"
    /\ yielded = <<>> /\ tail.seen = <<>>
    /\ Len(threads) = MaxPods
    /\ \A i \in 1..Len(threads) :
          threads[i].state = "closed" /\ threads[i].exit = "ended"
    /\ Len(log_queue) = 2 * MaxPods

\* ---------------------------------------------------------------- C17
\* C17: when no pod carries the task id together with sanitize(owner),
\* the call of tail_logs ends in its first step with nothing yielded: no
\* thread is started, nothing is put on or awaited from a queue, and the
\* generator never runs again.
C17_NoPodsEmpty ==
    /\ [][(tail.state = "idle" /\ tail'.state # "idle"
             /\ ~\E p \in pods : /\ p.task_id = tail'.task_id
                                 /\ p.username = _sanitize_username(tail'.user))
          => /\ tail'.state = "done"
             /\ tail'.found = <<>>
             /\ threads' = <<>> /\ log_queue' = <<>> /\ yielded' = <<>>]_vars
    /\ []((tail.state = "done" /\ tail.found = <<>>) =>
             /\ threads = <<>> /\ log_queue = <<>> /\ yielded = <<>>
             /\ ~ENABLED StartThread
             /\ ~ENABLED Get)

\* tail_logs returned at once for a task whose pod belongs to another owner.
C17_Witness ==
    /\ tail.state = "done"
    /\ tail.found = <<>>
    /\ \E p \in pods : /\ p.task_id = tail.task_id
                       /\ p.username # _sanitize_username(tail.user)

\* ---------------------------------------------------------------- C18
\* C18: every item yielded or queued as a line is the line its pod wrote,
\* behind "node-<idx> | " with <idx> the node-idx label of that pod when
\* more than one pod was discovered, and unchanged when one pod was.
C18_PrefixIffMultiNode ==
    LET Shown(y) ==
           LET pod == tail.found[y.from]
               line == pod.log[y.k]
           IN IF Len(tail.found) > 1
              THEN y.text = <<"n", "o", "d", "e", "-">> \o pod.node_idx
                               \o <<" ", "|", " ">> \o line
              ELSE y.text = line
    IN /\ \A n \in 1..Len(yielded) : Shown(yielded[n])
       /\ \A n \in 1..Len(log_queue) :
             log_queue[n].text # NoneVal => Shown(log_queue[n])

\* The pod listed first carried node-idx 1, and its line was yielded behind
\* "node-1 | ".
C18_Witness ==
    /\ Len(tail.found) > 1
    /\ tail.found[1].node_idx = Str(1)
    /\ \E n \in 1..Len(yielded) :
          /\ yielded[n].from = 1
          /\ SubSeq(yielded[n].text, 1, 9)
                = <<"n", "o", "d", "e", "-", "1", " ", "|", " ">>

\* ---------------------------------------------------------------- C19
\* C19: sanitizing a sanitized identity returns it unchanged, for every
\* identity string of up to MaxLen characters over 'a', '@' and '-'.
C19_Idempotent == twice # NoneVal => twice = sanitized

\* An identity with two '@' and a '-' has gone through the codec twice.
C19_Witness ==
    /\ twice # NoneVal
    /\ Cardinality({i \in 1..Len(identity) : identity[i] = "@"}) >= 2
    /\ \E i \in 1..Len(identity) : identity[i] = "-"
    /\ sanitized # identity

\* ---------------------------------------------------------------- C20
\* `label` is `raw` with every '@' replaced by '-'.
IsSanitized(label, raw) ==
    /\ Len(label) = Len(raw)
    /\ \A i \in 1..Len(raw) : label[i] = IF raw[i] = "@" THEN "-" ELSE raw[i]

NoAt(label) == \A i \in 1..Len(label) : label[i] # "@"

\* C20: no username label in the cluster holds an '@'; the username labels
\* of a Job and of its pod template are the sanitized identity of the caller
\* of the submit_task that creates it, and the username label of a claim
\* is the sanitized identity of the caller of its create_volume.
C20_OwnerLabelSanitized ==
    /\ [](/\ \A j \in jobs : NoAt(j.username) /\ NoAt(j.pod_username)
          /\ \A p \in pvcs : NoAt(p.username)
          /\ \A i \in 1..Len(sub.created) :
                /\ IsSanitized(sub.created[i].username, sub.user)
                /\ IsSanitized(sub.created[i].pod_username, sub.user))
    /\ [][/\ \A j \in jobs' \ jobs :
                /\ sub.state = "running"
                /\ IsSanitized(j.username, sub.user)
                /\ IsSanitized(j.pod_username, sub.user)
          /\ \A p \in pvcs' \ pvcs :
                /\ last'.op = "create_volume"
                /\ IsSanitized(p.username, last'.user)]_vars

\* A submission of "b@c" returned while the cluster holds a claim that
\* "b@c" created: both carry "b-c".
C20_Witness ==
    /\ sub.state = "returned"
    /\ sub.user = <<"b", "@", "c">>
    /\ \E j \in jobs : j.username = <<"b", "-", "c">> /\ j.pod_username = <<"b", "-", "c">>
    /\ \E p \in pvcs : p.username = <<"b", "-", "c">>

\* ---------------------------------------------------------------- C21
\* C21: the claimName written into a unit that mounts volume_name is the
\* object name of a claim labelled as a volume with that volume-name and
\* username = sanitize(owner) when the cluster holds one, and volume_name
\* itself when it holds none, the claims of other owners notwithstanding.
C21_Resolution ==
    [][\A j \in jobs' \ jobs :
          sub.def.volume # NoneVal =>
             LET owner == _sanitize_username(sub.user)
                 mine == {p \in pvcs : /\ p.volume_label
                                       /\ p.volume_name = sub.def.volume
                                       /\ p.username = owner}
             IN IF mine # {} THEN j.claim \in {p.name : p \in mine}
                ELSE j.claim = sub.def.volume]_vars

\* A unit was given the claim its owner created under the volume name.
C21_Witness ==
    /\ sub.state = "returned"
    /\ sub.def.volume = <<"v">>
    /\ \E p \in pvcs : /\ p.username = _sanitize_username(sub.user)
                       /\ p.volume_name = <<"v">>
                       /\ p.name # <<"v">>
                       /\ sub.created[1].claim = p.name

\* ---------------------------------------------------------------- C22
\* C22: get_task_status of the owner finds the unit of a single-node task
\* for as long as it exists, and reports pending or running while the
\* unit's completion and failure counters are 0 and completed once its
\* completion counter is > 0; that counter never returns to 0.
C22_SingleNodeLifecycle ==
    /\ [](last.op = "get_task_status" =>
             \A j \in jobs :
                (/\ j.task_id = last.id
                 /\ j.username = _sanitize_username(last.user)
                 /\ j.num_nodes = Str(1))
                => /\ last.result # NoStatus
                   /\ (j.succeeded = 0 /\ j.failed = 0)
                         => last.result.status \in {"pending", "running"}
                   /\ j.succeeded > 0 => last.result.status = "completed")
    /\ [][\A j \in jobs : \A k \in jobs' :
             (k.name = j.name /\ j.succeeded > 0) => k.succeeded > 0]_vars

\* The owner asked for the status of a single-node task whose unit has
\* completed.
C22_Witness ==
    /\ last.op = "get_task_status"
    /\ last.result # NoStatus
    /\ last.result.status = "completed"
    /\ \E j \in jobs : /\ j.task_id = last.id
                       /\ j.num_nodes = Str(1)
                       /\ j.succeeded > 0

\* ---------------------------------------------------------------- C23
\* C23: no stop call deletes, and no status or listing call reports, a Job
\* that lacks the engine's skypilot-task=true label.
C23_KindScoped ==
    /\ [][last'.op \in {"stop_task", "stop_all_tasks"} =>
             \A j \in jobs \ jobs' : j.task_label]_vars
    /\ [](/\ (last.op = "get_task_status" /\ last.result # NoStatus) =>
                \A j \in jobs :
                   (\E i \in 1..Len(last.result.node_jobs) :
                       last.result.node_jobs[i] = j.name) => j.task_label
          /\ last.op = "list_tasks" =>
                \A n \in 1..Len(last.result) : \A j \in jobs :
                   (\E i \in 1..Len(last.result[n].node_jobs) :
                       last.result[n].node_jobs[i] = j.name) => j.task_label)

\* ---------------------------------------------------------------- C24
\* C24: the env list of unit i of a submission with num_nodes = N is the
\* user's entries in their order, then NODE_RANK = i, then NUM_NODES = N,
\* whatever keys the user's map holds and also when it is empty or absent.
C24_RankAndSizeLast ==
    \A i \in 1..Len(sub.created) :
       LET env == sub.created[i].env
           user == IF sub.def.envs.given THEN sub.def.envs.items ELSE <<>>
           m == Len(env)
       IN /\ m = Len(user) + 2
          /\ \A k \in 1..Len(user) :
                env[k] = [name |-> user[k][1], value |-> user[k][2]]
          /\ env[m - 1] = [name |-> "NODE_RANK", value |-> Str(i - 1)]
          /\ env[m] = [name |-> "NUM_NODES", value |-> Str(sub.def.num_nodes)]

\* A MaxNodes-node submission whose own map names NODE_RANK has returned.
C24_Witness ==
    /\ sub.state = "returned"
    /\ sub.def.num_nodes = MaxNodes
    /\ sub.def.envs.given
    /\ \E k \in 1..Len(sub.def.envs.items) : sub.def.envs.items[k][1] = "NODE_RANK"
    /\ Len(sub.created[MaxNodes].env) = 3

\* ---------------------------------------------------------------- C25
\* C25: every line tail_logs yields for a task submitted with
\* num_nodes > 1 starts with "node-<idx> | ", <idx> being the node index of
\* the pod that wrote it, however many of the task's pods were discovered.
C25_MultiNodeLabelled ==
    \A n \in 1..Len(yielded) :
       LET pod == tail.found[yielded[n].from]
           prefix == <<"n", "o", "d", "e", "-">> \o pod.node_idx \o <<" ", "|", " ">>
       IN (\E j \in jobs : j.task_id = pod.task_id /\ j.num_nodes # Str(1))
             => /\ Len(yielded[n].text) >= Len(prefix)
                /\ SubSeq(yielded[n].text, 1, Len(prefix)) = prefix

\* ---------------------------------------------------------------- C26
\* C26: POST /volumes/create and DELETE /volumes/{id} answer 500 only when
\* the executor call raised; when the executor returned (a volume_id, true
\* or false) the answer is "created", "deleted" or 404.
C26_ErrorOnlyWhenExecutorRaised ==
    (last.op \in {"POST /volumes/create", "DELETE /volumes/{volume_id}"}
       /\ last.result.code = 500)
       => last.result.executor = "raised"

\* ---------------------------------------------------------------- C27
\* C27: no TaskStatus list_tasks returns covers units of two owners, and
\* the list has as many entries as there are distinct tasks (id, owner and
\* name) among the units the selector matched.
C27_OneEntryPerTask ==
    last.op = "list_tasks" =>
       LET matched == JobsOfOwner(jobs, last.user)
           Covered(e) == {j \in matched :
                            \E i \in 1..Len(e.node_jobs) : e.node_jobs[i] = j.name}
       IN /\ \A n \in 1..Len(last.result) :
                \A a \in Covered(last.result[n]), b \in Covered(last.result[n]) :
                   a.username = b.username
          /\ Len(last.result)
               = Cardinality({<<j.task_id, j.username, j.task_name>> : j \in matched})

\* ---------------------------------------------------------------- C28
\* C28: in every TaskStatus the aggregator returns, the four per-phase
\* counts add up to the number of units aggregated, the length of
\* node_jobs, whatever the counters of the units are.
C28_EveryUnitInOnePhase ==
    agg # NoStatus =>
       /\ Len(agg.node_jobs) = Len(units)
       /\ agg.succeeded_nodes + agg.failed_nodes + agg.running_nodes + agg.pending_nodes
            = Len(agg.node_jobs)

\* A status over several units, one of them with all three counters set
\* and one with two.
C28_Witness ==
    /\ agg # NoStatus
    /\ Len(units) >= 2
    /\ \E i \in 1..Len(units) :
          units[i].succeeded > 0 /\ units[i].failed > 0 /\ units[i].active > 0
    /\ \E i \in 1..Len(units) :
          units[i].succeeded = 0 /\ units[i].failed > 0 /\ units[i].active > 0

\* ---------------------------------------------------------------- C29
\* The orders in which n units can be listed.
C29_Orders == [n \in 1..MaxUnits |-> Listings(1..n)]

\* C29: the status enum and the four per-phase counts are the same for
\* every order in which the cluster can return the same units.
C29_OrderIndependent ==
    agg # NoStatus =>
       \A order \in C29_Orders[Len(units)] :
          LET other == _aggregate_task_status([i \in 1..Len(units) |-> units[order[i]]])
          IN /\ other.status = agg.status
             /\ other.succeeded_nodes = agg.succeeded_nodes
             /\ other.failed_nodes = agg.failed_nodes
             /\ other.running_nodes = agg.running_nodes
             /\ other.pending_nodes = agg.pending_nodes

\* A status over MaxUnits units in three different phases, the first of
\* them failed and a later one running.
C29_Witness ==
    /\ agg # NoStatus
    /\ Len(units) = MaxUnits
    /\ UnitPhase(units[1]) = "failed"
    /\ \E i \in 2..Len(units) : UnitPhase(units[i]) = "running"
    /\ \E i \in 2..Len(units) : UnitPhase(units[i]) = "pending"

\* ---------------------------------------------------------------- C30
\* C30: the units one submission has created all carry the same claim
\* name for the volume the task mounts, also when create_volume and
\* delete_volume calls run between two iterations of the loop.
C30_SameClaimInEveryUnit ==
    \A i \in 1..Len(sub.created), k \in 1..Len(sub.created) :
       sub.created[i].claim = sub.created[k].claim

====
